---- MODULE Spec2Model ----
(***************************************************************************)
(* Model of the darkflare server (src/server/main.go): the session table,  *)
(* the request handler (handleRequest / handleApplication) and the reaper  *)
(* (cleanupSessions), together with the backend sockets they talk to.      *)
(*                                                                         *)
(* Byte strings are kept run-length encoded: a byte string is a sequence   *)
(* of runs [b |-> byte, n |-> count] in which adjacent runs carry          *)
(* different bytes.  This lets the model use the real 8192-byte read       *)
(* buffer.  A hex string is a sequence of runs [hi, lo, n]: the two        *)
(* characters hi lo repeated n times.                                      *)
(***************************************************************************)
EXTENDS Integers, Sequences, FiniteSets, TLC

\* ------------------------------------------------------------- bounds
MaxConns == 2       \* backend connections dialed in one run
MaxTime == 10       \* the clock (minutes) stops here
MaxData == 2        \* backend chunks and non-empty POST bodies in one run
MaxProcs == 2
MaxDrain == 3       \* subprocesses spawned in one run

\* -------------------------------------------------- program constants
BufSize == 8192     \* make([]byte, 8192)
IdleTimeout == 5    \* 5*time.Minute, in minutes
SleepTime == 1      \* time.Minute, in minutes

StatusOK == 200
StatusBadRequest == 400
StatusForbidden == 403
StatusInternalServerError == 500

\* --------------------------------------------------------- byte strings
Min(a, b) == IF a < b THEN a ELSE b

Run(b, n) == [b |-> b, n |-> n]

RECURSIVE NBytes(_)
NBytes(s) == IF s = <<>> THEN 0 ELSE Head(s).n + NBytes(Tail(s))

\* append(s, t...): concatenation, merging the two runs that meet
Cat(s, t) ==
    IF s = <<>> THEN t
    ELSE IF t = <<>> THEN s
    ELSE IF s[Len(s)].b = Head(t).b
         THEN SubSeq(s, 1, Len(s) - 1)
              \o <<Run(Head(t).b, s[Len(s)].n + Head(t).n)>>
              \o Tail(t)
         ELSE s \o t

\* s[:k]
RECURSIVE Take(_, _)
Take(s, k) ==
    IF k = 0 \/ s = <<>> THEN <<>>
    ELSE IF Head(s).n <= k THEN <<Head(s)>> \o Take(Tail(s), k - Head(s).n)
    ELSE <<Run(Head(s).b, k)>>

\* s[k:]
RECURSIVE Drop(_, _)
Drop(s, k) ==
    IF k = 0 \/ s = <<>> THEN s
    ELSE IF Head(s).n <= k THEN Drop(Tail(s), k - Head(s).n)
    ELSE <<Run(Head(s).b, Head(s).n - k)>> \o Tail(s)

\* A byte string is followed exactly up to MaxDrain buffers; a longer one, which
\* only a backend that never pauses can make, is kept as its first MaxDrain
\* buffers.
Capped(s) == IF NBytes(s) > MaxDrain * BufSize THEN Take(s, MaxDrain * BufSize) ELSE s

\* ------------------------------------------------------------------ hex
HexDigits == <<"0", "1", "2", "3", "4", "5", "6", "7",
               "8", "9", "a", "b", "c", "d", "e", "f">>

HexVal(ch) == (CHOOSE i \in 1..16 : HexDigits[i] = ch) - 1

\* hex.EncodeToString: every byte becomes its high and its low nibble
HexEncode(s) ==
    [i \in DOMAIN s |-> [hi |-> HexDigits[(s[i].b \div 16) + 1],
                         lo |-> HexDigits[(s[i].b % 16) + 1],
                         n  |-> s[i].n]]

\* the client's hex decoding of a response body
HexDecode(h) ==
    [i \in DOMAIN h |-> Run(16 * HexVal(h[i].hi) + HexVal(h[i].lo), h[i].n)]

\* --------------------------------------------------------------- inputs
Reqs == {1, 2}                  \* the request tasks that may be in flight at once
Reaper == Cardinality(Reqs) + 1 \* the reaper, as a holder of a mutex
Conns == 1..MaxConns

Methods == {"GET", "POST"}
XEphemeralVals == {"", "a"}
CfRayVals == {"", "7d4e1f209a8b3c56"}
CfConnectingIpVals == {"", "7d4e1f209a8b3c56"}
Headers == [xe : XEphemeralVals, ray : CfRayVals, ip : CfConnectingIpVals]
SessionIDs == {"a", "7d4e1f209a8b3c56"}
NoHeaders == [xe |-> "", ray |-> "", ip |-> ""]

Bodies == {<<>>, <<Run(104, 1)>>, <<Run(105, 2)>>}
Chunks == {Run(10, 1), Run(171, BufSize)}
AppCommands == {"", " ", "sshd -i"}

\* The workloads a run is drawn from.  Each bounds what the clients and the
\* environment do in one run; the server's code is the same under all of them.
\*   serial:  one request at a time, any headers, any mode, data flows
\*   racing:  two requests at a time, any headers, no data, the clock stands
\*   idling:  two requests at a time on one session, no data, the clock runs
\*   logging: one request at a time, -debug set, a short and a long session-id
\*   flooding: two requests at a time on one session, a backend that refills the
\*            socket with a full buffer whenever it is drained
TheSession == [xe |-> "a", ray |-> "", ip |-> "7d4e1f209a8b3c56"]
LongSession == [xe |-> "", ray |-> "7d4e1f209a8b3c56", ip |-> "7d4e1f209a8b3c56"]
Workloads ==
    { [name |-> "serial", tasks |-> {1}, headers |-> Headers, commands |-> AppCommands,
       direct |-> BOOLEAN, debug |-> {FALSE}, clock |-> FALSE, data |-> MaxData,
       flood |-> FALSE],
      [name |-> "racing", tasks |-> Reqs, headers |-> Headers,
       commands |-> {"", "sshd -i"},
       direct |-> BOOLEAN, debug |-> {FALSE}, clock |-> FALSE, data |-> 0,
       flood |-> FALSE],
      [name |-> "idling", tasks |-> Reqs, headers |-> {TheSession}, commands |-> {""},
       direct |-> {FALSE}, debug |-> {FALSE}, clock |-> TRUE, data |-> 0,
       flood |-> FALSE],
      [name |-> "logging", tasks |-> {1}, headers |-> {TheSession, LongSession},
       commands |-> {""}, direct |-> {FALSE}, debug |-> {TRUE}, clock |-> FALSE,
       data |-> MaxData, flood |-> FALSE],
      [name |-> "flooding", tasks |-> Reqs, headers |-> {TheSession},
       commands |-> {""}, direct |-> {FALSE}, debug |-> {FALSE}, clock |-> FALSE,
       data |-> 0, flood |-> TRUE] }

\* ---------------------------------------------------------------- state
VARIABLES
    load,           \* the name of the workload of this run
    appCommand,     \* Server.appCommand
    allowDirect,    \* Server.allowDirect
    debug,          \* Server.debug
    sessions,       \* Server.sessions: session-id -> record (0: no entry)
    lastActive,     \* Session.lastActive of each record
    mu,             \* Session.mu of each record: 0, or the task holding it
    closed,         \* Session.conn closed by the server
    ndialed,        \* connections dialed so far; a record is named by its conn
    dialedFor,      \* the session-id each conn was dialed for
    backend,        \* the backend's end of each conn: "none" | "open" | "eof" | "reset"
    avail,          \* bytes the backend has produced and no Read has taken
    sent,           \* bytes written to each conn, in order
    consumed,       \* bytes the handlers' Reads have taken from each conn
    delivered,      \* hex-decoded bodies of the 200 responses to GETs on each conn
    posted,         \* bodies of the POSTs answered 200 on each conn
    ndata,          \* backend chunks and non-empty POST bodies so far
    nprocs,         \* subprocesses started so far
    req,            \* each request task: its position and its locals
    reaper,         \* the reaper task: its position and its locals
    now             \* time.Now(), in minutes

vars == <<load, appCommand, allowDirect, debug, sessions, lastActive, mu, closed, ndialed,
          dialedFor,
          backend, avail, sent, consumed, delivered, posted, ndata, nprocs,
          req, reaper, now>>

config == <<load, appCommand, allowDirect, debug>>
table == <<sessions, lastActive, mu, closed, ndialed, dialedFor>>
wire == <<backend, avail, sent, consumed, delivered, posted, ndata>>

Workload == CHOOSE w \in Workloads : w.name = load

IdleReq == [pc |-> "idle", method |-> "", hdr |-> NoHeaders,
            sessionID |-> "", session |-> 0, readData |-> <<>>,
            status |-> 0, msg |-> "", respBody |-> <<>>, decorated |-> FALSE,
            prevActive |-> 0]

isAppModeNever == FALSE

\* NewServer: isAppMode: appCommand != ""
isAppMode == appCommand # ""

\* strings.Fields(s.appCommand)
Fields(cmd) == IF cmd = "sshd -i" THEN <<"sshd", "-i">> ELSE <<>>

Init ==
    /\ load \in {w.name : w \in Workloads}
    /\ appCommand \in Workload.commands
    /\ allowDirect \in Workload.direct
    /\ debug \in Workload.debug
    /\ sessions = [k \in SessionIDs |-> 0]
    /\ lastActive = [c \in Conns |-> 0]
    /\ mu = [c \in Conns |-> 0]
    /\ closed = [c \in Conns |-> FALSE]
    /\ ndialed = 0
    /\ dialedFor = [c \in Conns |-> ""]
    /\ backend = [c \in Conns |-> "none"]
    /\ avail = [c \in Conns |-> <<>>]
    /\ sent = [c \in Conns |-> <<>>]
    /\ consumed = [c \in Conns |-> <<>>]
    /\ delivered = [c \in Conns |-> <<>>]
    /\ posted = [c \in Conns |-> <<>>]
    /\ ndata = 0
    /\ nprocs = 0
    /\ req = [r \in Reqs |-> IdleReq]
    /\ reaper = [pc |-> "sleep", wake |-> SleepTime, now |-> 0, todo |-> {},
                 key |-> "", session |-> 0, due |-> {}, waited |-> FALSE]
    /\ now = 0

\* ------------------------------------------------------ handler: entry
\* the HTTP server hands a request to a handler task
Arrive(r, m, h) ==
    /\ req[r].pc = "idle"
    /\ r \in Workload.tasks
    /\ h \in Workload.headers
    /\ isAppMode => nprocs < MaxProcs
    /\ req' = [req EXCEPT ![r] = [IdleReq EXCEPT !.pc = "arrived", !.method = m, !.hdr = h]]
    /\ UNCHANGED <<config, table, wire, nprocs, reaper, now>>

\* the admission filter: cfConnecting == "" && !s.allowDirect
DirectDenied(h) == h.ip = "" /\ ~allowDirect

\* the session-id: X-Ephemeral, then Cf-Ray, then Cf-Connecting-Ip
DeriveSessionID(h) ==
    IF h.xe # "" THEN h.xe
    ELSE IF h.ray # "" THEN h.ray
    ELSE h.ip

\* http.Error, or the implicit 200 of a handler that returns: the task's locals die
Respond(q, code, text, body) ==
    [q EXCEPT !.pc = "done", !.status = code, !.msg = text, !.respBody = body,
              !.hdr = NoHeaders, !.sessionID = "", !.session = 0, !.readData = <<>>,
              !.prevActive = 0]

\* handleApplication up to cmd.Start()
HandleApplication(r) ==
    /\ req[r].pc = "arrived"
    /\ isAppMode
    /\ IF Len(Fields(appCommand)) = 0
       THEN /\ req' = [req EXCEPT ![r] = Respond(@, StatusInternalServerError,
                                                 "Invalid application command", <<>>)]
            /\ UNCHANGED nprocs
       ELSE \E started \in BOOLEAN :
               IF started
               THEN /\ req' = [req EXCEPT ![r].pc = "app"]
                    /\ nprocs' = nprocs + 1
               ELSE /\ req' = [req EXCEPT ![r] = Respond(@, StatusInternalServerError,
                                                         "start failed", <<>>)]
                    /\ UNCHANGED nprocs
    /\ UNCHANGED <<config, table, wire, reaper, now>>

\* handleApplication: cmd.Wait() and the response
AppWait(r, exitOK) ==
    /\ req[r].pc = "app"
    /\ req' = [req EXCEPT ![r] =
                 IF exitOK THEN Respond(@, StatusOK, "", <<>>)
                 ELSE Respond(@, StatusInternalServerError, "exit status 1", <<>>)]
    /\ UNCHANGED <<config, table, wire, nprocs, reaper, now>>

\* handleRequest in proxy mode up to and including s.sessions.Load(sessionID):
\* the admission filter, the decoration, the session-id and the table lookup
HandleRequest(r) ==
    /\ req[r].pc = "arrived"
    /\ ~isAppMode
    /\ LET h == req[r].hdr IN
       IF DirectDenied(h)
       THEN req' = [req EXCEPT ![r] = Respond(@, StatusForbidden,
                                              "Direct access not allowed", <<>>)]
       ELSE LET d == [req[r] EXCEPT !.decorated = TRUE,
                                    !.sessionID = DeriveSessionID(h)] IN
            IF d.sessionID = ""
            THEN req' = [req EXCEPT ![r] = Respond(d, StatusBadRequest,
                                                   "Missing session ID", <<>>)]
            ELSE IF sessions[d.sessionID] # 0
            THEN req' = [req EXCEPT ![r] = [d EXCEPT !.pc = "lock", !.hdr = NoHeaders,
                                                     !.session = sessions[d.sessionID]]]
            ELSE req' = [req EXCEPT ![r] = [d EXCEPT !.pc = "dial", !.hdr = NoHeaders]]
    /\ UNCHANGED <<config, table, wire, nprocs, reaper, now>>

\* the response has been sent: the task is free for the next request
Return(r) ==
    /\ req[r].pc = "done"
    /\ req' = [req EXCEPT ![r] = IdleReq]
    /\ UNCHANGED <<config, table, wire, nprocs, reaper, now>>

\* ------------------------------------------- handler: backend acquisition
\* a handler has stored or locked a record of session-id k: k is no longer among
\* the sessions the running sweep found idle and untouched
Touched(rp, k) == [rp EXCEPT !.due = {d \in @ : d.key # k}]

DialFailsStoring(r) ==
    /\ req' = [req EXCEPT ![r] = Respond(@, StatusInternalServerError,
                                         "dial failed", <<>>)]
    /\ sessions' = [sessions EXCEPT ![req[r].sessionID] = 1]
    /\ UNCHANGED <<ndialed, dialedFor, backend, lastActive, reaper>>

\* a handler has taken the mutex of record c: a reaper that is about to lock c
\* has to wait for it
Blocked(rp, c) ==
    IF rp.pc = "lock" /\ rp.session = c THEN [rp EXCEPT !.waited = TRUE] ELSE rp

\* net.Dial returned err != nil: http.Error(w, err.Error(), 500) and return
DialFails(r) ==
    /\ req' = [req EXCEPT ![r] = Respond(@, StatusInternalServerError,
                                         "dial failed", <<>>)]
    /\ UNCHANGED <<ndialed, dialedFor, backend, lastActive, sessions, reaper>>

\* net.Dial; when it succeeds, session = &Session{conn, lastActive: time.Now()}
\* and s.sessions.Store(sessionID, session)
Dial(r, ok) ==
    /\ req[r].pc = "dial"
    /\ IF ok
       THEN /\ ndialed < MaxConns
            /\ LET c == ndialed + 1 IN
               /\ ndialed' = c
               /\ dialedFor' = [dialedFor EXCEPT ![c] = req[r].sessionID]
               /\ backend' = [backend EXCEPT ![c] = "open"]
               /\ lastActive' = [lastActive EXCEPT ![c] = now]
               /\ sessions' = [sessions EXCEPT ![req[r].sessionID] = c]
               /\ req' = [req EXCEPT ![r] = [@ EXCEPT !.pc = "lock", !.session = c]]
               /\ reaper' = Touched(reaper, req[r].sessionID)
       ELSE DialFails(r)
    /\ UNCHANGED <<config, mu, closed, avail, sent, consumed, delivered, posted,
                   ndata, nprocs, now>>

MuFreeAlways(m, c) == TRUE

\* session.mu.Lock() returns only once no task holds the mutex
MuFree(m, c) == m[c] = 0

StampEpoch(la, c, t) == [la EXCEPT ![c] = 0]

\* session.lastActive = time.Now(), evaluated by the holder of the mutex
Stamp(la, c, t) == [la EXCEPT ![c] = t]

\* session.mu.Lock(); session.lastActive = time.Now()
Lock(r) ==
    /\ req[r].pc = "lock"
    /\ MuFree(mu, req[r].session)
    /\ mu' = [mu EXCEPT ![req[r].session] = r]
    /\ lastActive' = Stamp(lastActive, req[r].session, now)
    /\ req' = [req EXCEPT ![r].pc = IF req[r].method = "POST" THEN "post" ELSE "get",
                          ![r].prevActive = lastActive[req[r].session]]
    /\ reaper' = Blocked(Touched(reaper, req[r].sessionID), req[r].session)
    /\ UNCHANGED <<config, sessions, closed, ndialed, dialedFor, wire, nprocs, now>>

UnlockSkipped(m, c) == m

\* defer session.mu.Unlock()
Unlock(m, c) == [m EXCEPT ![c] = 0]

\* ------------------------------------------------------- handler: POST
\* session.conn.Write(data) fails on a conn the server closed or the backend reset
WriteFails(c) == closed[c] \/ backend[c] = "reset"

PostWritesMoreThanOne(data) == NBytes(data) > 1

\* len(data) > 0
PostWrites(data) == NBytes(data) > 0

\* sessionID[:8] in a debug log line: a run-time panic when the session-id has
\* fewer than 8 bytes.  The deferred Unlock runs, net/http recovers the panic
\* and drops the client's connection: the request gets no response.
SlicePanics(sid) == debug /\ Len(sid) < 8

\* data, err := io.ReadAll(r.Body) (bodyOK: err == nil), the debug log line,
\* conn.Write(data), the response and the deferred Unlock
Post(r, data, bodyOK) ==
    /\ req[r].pc = "post"
    /\ data # <<>> => ndata < Workload.data
    /\ ndata' = IF data # <<>> THEN ndata + 1 ELSE ndata
    /\ LET c == req[r].session IN
       /\ mu' = Unlock(mu, c)
       /\ IF ~bodyOK
          THEN /\ req' = [req EXCEPT ![r] = Respond(@, StatusInternalServerError,
                                                    "body read failed", <<>>)]
               /\ UNCHANGED <<sent, posted>>
          ELSE IF PostWrites(data) /\ SlicePanics(req[r].sessionID)
          THEN /\ req' = [req EXCEPT ![r] = Respond(@, 0, "panic", <<>>)]
               /\ UNCHANGED <<sent, posted>>
          ELSE IF PostWrites(data) /\ WriteFails(c)
          THEN /\ req' = [req EXCEPT ![r] = Respond(@, StatusInternalServerError,
                                                    "write failed", <<>>)]
               /\ UNCHANGED <<sent, posted>>
          ELSE /\ sent' = [sent EXCEPT ![c] = IF PostWrites(data) THEN Cat(@, data) ELSE @]
               /\ posted' = [posted EXCEPT ![c] = Cat(@, data)]
               /\ req' = [req EXCEPT ![r] = Respond(@, StatusOK, "", <<>>)]
    /\ UNCHANGED <<config, sessions, lastActive, closed, ndialed, dialedFor, backend, avail,
                   consumed, delivered, nprocs, reaper, now>>

\* -------------------------------------------------------- handler: GET
\* what one session.conn.Read(buffer) returns
ReadResult(c) ==
    IF closed[c] \/ backend[c] = "reset" THEN [n |-> 0, err |-> "error"]
    ELSE IF avail[c] # <<>> THEN [n |-> Min(BufSize, NBytes(avail[c])), err |-> "nil"]
    ELSE IF backend[c] = "eof" THEN [n |-> 0, err |-> "EOF"]
    ELSE [n |-> 0, err |-> "timeout"]

\* the body of the response to a GET that drained readData
GetBody(readData) == IF NBytes(readData) > 0 THEN HexEncode(readData) ELSE <<>>

\* err != io.EOF && !err.(net.Error).Timeout()
HardError(err) == err # "EOF" /\ err # "timeout"

\* n < len(buffer): the drain loop ends after this read
ShortRead(n) == n < BufSize

\* one iteration of the drain loop (with its debug log line when n > 0) and,
\* when the loop ends, the debug log line, the response and the deferred Unlock
Get(r) ==
    /\ req[r].pc = "get"
    /\ LET c == req[r].session
           res == ReadResult(c)
           got == Take(avail[c], res.n)
           data == Capped(Cat(req[r].readData, got)) IN
       IF res.err # "nil" /\ HardError(res.err)
       THEN /\ req' = [req EXCEPT ![r] = Respond(@, StatusInternalServerError,
                                                 "read failed", <<>>)]
            /\ mu' = Unlock(mu, c)
            /\ UNCHANGED <<avail, consumed, delivered>>
       ELSE /\ avail' = [avail EXCEPT ![c] = Drop(@, res.n)]
            /\ consumed' = [consumed EXCEPT ![c] = Capped(Cat(@, got))]
            /\ IF SlicePanics(req[r].sessionID)
               THEN /\ req' = [req EXCEPT ![r] = Respond(@, 0, "panic", <<>>)]
                    /\ mu' = Unlock(mu, c)
                    /\ UNCHANGED delivered
               ELSE IF res.err = "nil" /\ ~ShortRead(res.n)
               THEN /\ req' = [req EXCEPT ![r].readData = data]
                    /\ UNCHANGED <<mu, delivered>>
               ELSE /\ req' = [req EXCEPT ![r] = Respond(@, StatusOK, "", GetBody(data))]
                    /\ delivered' = [delivered EXCEPT ![c] =
                                        Capped(Cat(@, HexDecode(GetBody(data))))]
                    /\ mu' = Unlock(mu, c)
    /\ UNCHANGED <<config, sessions, lastActive, closed, ndialed, dialedFor, backend,
                   sent, posted, ndata, nprocs, reaper, now>>

\* --------------------------------------------------------------- reaper
ExpiredSwapped(t, last) == last - t > IdleTimeout

ExpiredAtTimeout(t, last) == t - last >= IdleTimeout

\* now.Sub(session.lastActive) > 5*time.Minute
Expired(t, last) == t - last > IdleTimeout

\* the reaper after an entry: the next entry of the Range, or time.Sleep
Resume(rp, todo) ==
    IF todo = {}
    THEN [rp EXCEPT !.pc = "sleep", !.wake = now + SleepTime, !.todo = {}, !.now = 0,
                    !.key = "", !.session = 0, !.waited = FALSE]
    ELSE [rp EXCEPT !.pc = "range", !.todo = todo, !.key = "", !.session = 0,
                    !.waited = FALSE]

\* the table's entries, as the sweep starting now finds them, whose record no
\* handler has stored or locked for more than five minutes
IdleEntries ==
    {[key |-> k, session |-> sessions[k]] : k \in {j \in SessionIDs :
        /\ sessions[j] # 0
        /\ now - lastActive[sessions[j]] > IdleTimeout
        /\ \A r \in Reqs : req[r].sessionID = j => req[r].pc \notin {"dial", "post", "get"}}}

\* time.Sleep(time.Minute) returns; now := time.Now(); Range starts
ReaperWake ==
    /\ reaper.pc = "sleep"
    /\ now >= reaper.wake
    /\ reaper' = Resume([reaper EXCEPT !.now = now, !.due = IdleEntries],
                         {k \in SessionIDs : sessions[k] # 0})
    /\ UNCHANGED <<config, table, wire, nprocs, req, now>>

\* Range hands the callback an entry: session := value.(*Session)
ReaperVisit(k) ==
    /\ reaper.pc = "range"
    /\ k \in reaper.todo
    /\ reaper' = IF sessions[k] = 0
                 THEN Resume(reaper, reaper.todo \ {k})
                 ELSE [reaper EXCEPT !.todo = @ \ {k}, !.pc = "lock", !.key = k,
                                     !.session = sessions[k],
                                     !.waited = ~MuFree(mu, sessions[k])]
    /\ UNCHANGED <<config, table, wire, nprocs, req, now>>

\* session.mu.Lock(), the idle test and, for an idle record, session.conn.Close();
\* for any other record, session.mu.Unlock()
ReaperLock ==
    /\ reaper.pc = "lock"
    /\ MuFree(mu, reaper.session)
    /\ IF Expired(reaper.now, lastActive[reaper.session])
       THEN /\ mu' = [mu EXCEPT ![reaper.session] = Reaper]
            /\ closed' = [closed EXCEPT ![reaper.session] = TRUE]
            /\ reaper' = [reaper EXCEPT !.pc = "delete"]
       ELSE /\ reaper' = Resume(reaper, reaper.todo)
            /\ UNCHANGED <<mu, closed>>
    /\ UNCHANGED <<config, sessions, lastActive, ndialed, dialedFor, wire, nprocs, req, now>>

\* s.sessions.Delete(key); session.mu.Unlock()
ReaperDelete ==
    /\ reaper.pc = "delete"
    /\ sessions' = [sessions EXCEPT ![reaper.key] = 0]
    /\ mu' = [mu EXCEPT ![reaper.session] = 0]
    /\ reaper' = Resume(reaper, reaper.todo)
    /\ UNCHANGED <<config, lastActive, closed, ndialed, dialedFor, wire, nprocs, req, now>>

\* ---------------------------------------------------------- environment
InFlight(r) == req[r].pc \in {"lock", "post", "get"}

\* a conn some table entry or some handler still refers to; any other conn is
\* never read or written again
Referenced(c) ==
    \/ \E k \in SessionIDs : sessions[k] = c
    \/ \E r \in Reqs : InFlight(r) /\ req[r].session = c

\* the backend produces a chunk on a conn it holds open
BackendProduce(c, ch) ==
    /\ backend[c] = "open"
    /\ ~closed[c]
    /\ Referenced(c)
    /\ ndata < Workload.data
    /\ avail' = [avail EXCEPT ![c] = Cat(@, <<ch>>)]
    /\ ndata' = ndata + 1
    /\ UNCHANGED <<config, table, backend, sent, consumed, delivered, posted,
                   nprocs, req, reaper, now>>

\* a backend that never pauses: whenever the socket holds less than a buffer of
\* unread bytes it adds a full buffer
BackendFlood(c) ==
    /\ Workload.flood
    /\ backend[c] = "open"
    /\ ~closed[c]
    /\ Referenced(c)
    /\ NBytes(avail[c]) < BufSize
    /\ avail' = [avail EXCEPT ![c] = Cat(@, <<Run(171, BufSize)>>)]
    /\ UNCHANGED <<config, table, backend, sent, consumed, delivered, posted, ndata,
                   nprocs, req, reaper, now>>

\* the backend closes its end (the server's Read sees EOF after the data)
BackendClose(c) ==
    /\ backend[c] = "open"
    /\ ~closed[c]
    /\ Referenced(c)
    /\ backend' = [backend EXCEPT ![c] = "eof"]
    /\ UNCHANGED <<config, table, avail, sent, consumed, delivered, posted, ndata,
                   nprocs, req, reaper, now>>

\* the conn breaks (a reset): every later Read and Write on it fails
BackendReset(c) ==
    /\ backend[c] \in {"open", "eof"}
    /\ ~closed[c]
    /\ Referenced(c)
    /\ backend' = [backend EXCEPT ![c] = "reset"]
    /\ UNCHANGED <<config, table, avail, sent, consumed, delivered, posted, ndata,
                   nprocs, req, reaper, now>>

\* time passes; the clock is read at steps of IdleTimeout minutes, so that a
\* record is seen idle for exactly the timeout and for more than it
Tick ==
    /\ Workload.clock
    /\ now + IdleTimeout <= MaxTime
    /\ now' = now + IdleTimeout
    /\ UNCHANGED <<config, table, wire, nprocs, req, reaper>>

\* -------------------------------------------------------- specification
Next ==
    \/ \E r \in Reqs, m \in Methods, h \in Headers : Arrive(r, m, h)
    \/ \E r \in Reqs : HandleApplication(r)
    \/ \E r \in Reqs, exitOK \in BOOLEAN : AppWait(r, exitOK)
    \/ \E r \in Reqs : HandleRequest(r)
    \/ \E r \in Reqs : Return(r)
    \/ \E r \in Reqs, ok \in BOOLEAN : Dial(r, ok)
    \/ \E r \in Reqs : Lock(r)
    \/ \E r \in Reqs, data \in Bodies, bodyOK \in BOOLEAN : Post(r, data, bodyOK)
    \/ \E r \in Reqs : Get(r)
    \/ ReaperWake
    \/ \E k \in SessionIDs : ReaperVisit(k)
    \/ ReaperLock
    \/ ReaperDelete
    \/ \E c \in Conns, ch \in Chunks : BackendProduce(c, ch)
    \/ \E c \in Conns : BackendFlood(c)
    \/ \E c \in Conns : BackendClose(c)
    \/ \E c \in Conns : BackendReset(c)
    \/ Tick

Spec == Init /\ [][Next]_vars

\* A handler in its drain loop is a running goroutine: its next Read happens.
FairSpec == Spec /\ \A r \in Reqs : WF_vars(Get(r))

\* Every goroutine that can run does run: a handler holding a mutex goes on to
\* its I/O and its return, the reaper holding one goes on to Delete and Unlock,
\* and a goroutine waiting in Lock gets the mutex if it is released again and
\* again (sync.Mutex hands the lock to a waiter that has starved).
LockFairSpec ==
    /\ Spec
    /\ \A r \in Reqs :
          /\ WF_vars(Get(r))
          /\ WF_vars(\E data \in Bodies, bodyOK \in BOOLEAN : Post(r, data, bodyOK))
          /\ SF_vars(Lock(r))
    /\ WF_vars(ReaperDelete)
    /\ SF_vars(ReaperLock)

\* ----------------------------------------------------------- properties
Locked(r) == req[r].pc \in {"post", "get"}
OpenConn(c) == backend[c] # "none" /\ ~closed[c]
Busy(k) == \E r \in Reqs : req[r].sessionID = k /\ req[r].pc \in {"dial", "lock", "post", "get"}

\* C1: two requests on the same session-id are never both inside the handler
\* body (between Lock and Unlock, where the backend I/O happens) at once.
C1_SerialPerSession ==
    \A r1, r2 \in Reqs :
        r1 # r2 /\ Locked(r1) /\ Locked(r2) => req[r1].sessionID # req[r2].sessionID

\* C2: once the requests on a session-id have returned, at most one conn dialed
\* for that session-id is open: a racing first-request's extra dial was closed.
C2_OneSocketPerSession ==
    \A k \in SessionIDs :
        ~Busy(k) => Cardinality({c \in Conns : dialedFor[c] = k /\ OpenConn(c)}) <= 1

\* C3: a session no request has touched for more than five minutes when a sweep
\* starts, and none touches during the sweep, is gone after the sweep: its key
\* is absent from the table and its conn is closed; the next request bearing
\* that session-id misses the table, dials a conn never used before and stores
\* a new record under the key.
C3_Evicted ==
    reaper.pc = "sleep" =>
        \A d \in reaper.due : sessions[d.key] = 0 /\ closed[d.session]

C3_Redial(r) ==
    \A d \in reaper.due :
        /\ ( /\ reaper.pc = "sleep"
             /\ req[r].pc = "arrived" /\ req'[r].pc # "arrived"
             /\ req[r].hdr = TheSession /\ d.key = "a" )
           => req'[r].pc = "dial"
        /\ ( /\ reaper.pc = "sleep"
             /\ req[r].pc = "dial" /\ req[r].sessionID = d.key /\ req'[r].pc = "lock" )
           => /\ req'[r].session # d.session
              /\ backend[req'[r].session] = "none"
              /\ backend'[req'[r].session] = "open" /\ ~closed'[req'[r].session]
              /\ sessions'[d.key] = req'[r].session

C3_IdleSessionReaped == [](C3_Evicted) /\ [][\A r \in Reqs : C3_Redial(r)]_vars

C3_Witness ==
    /\ reaper.pc = "sleep"
    /\ \E d \in reaper.due, r \in Reqs :
          /\ closed[d.session] /\ sessions[d.key] = 0
          /\ req[r].pc = "dial" /\ req[r].sessionID = d.key

\* C4: on every conn, whenever no GET is inside its drain loop, the bytes the
\* GETs have read from the socket are, in order, the hex-decoded concatenation
\* of the bodies of the GET responses: nothing read is dropped, doubled or
\* reordered, however a drain loop ended.
C4_StreamIntact ==
    \A c \in Conns :
        (\A r \in Reqs : ~(req[r].pc = "get" /\ req[r].session = c))
            => delivered[c] = consumed[c]

C6_Step(r) ==
    req[r].pc = "arrived" /\ req[r].hdr.ip = "" /\ ~allowDirect /\ req'[r].pc # "arrived"
        => /\ req'[r].pc = "done"
           /\ req'[r].status = StatusForbidden
           /\ UNCHANGED <<table, wire, nprocs>>

C6_DirectRefused == [][\A r \in Reqs : C6_Step(r)]_vars

\* C7: a request that passes the admission filter gets as session-id the first
\* non-empty of X-Ephemeral, Cf-Ray, Cf-Connecting-Ip; when there is none it is
\* answered 400 with no backend acquired and the table untouched; when the
\* table has a record under that session-id the request uses that record and
\* dials nothing.
C7_FirstNonEmpty(h) ==
    IF h.xe # "" THEN h.xe ELSE IF h.ray # "" THEN h.ray ELSE h.ip

C7_Step(r) ==
    LET h == req[r].hdr
        sid == C7_FirstNonEmpty(h) IN
    /\ req[r].pc = "arrived"
    /\ ~(h.ip = "" /\ ~allowDirect)
    /\ req'[r].pc # "arrived"
    => IF sid = ""
       THEN /\ req'[r].pc = "done"
            /\ req'[r].status = StatusBadRequest
            /\ UNCHANGED <<table, wire, nprocs>>
       ELSE /\ req'[r].sessionID = sid
            /\ sessions[sid] # 0 =>
                  /\ req'[r].pc = "lock"
                  /\ req'[r].session = sessions[sid]
                  /\ UNCHANGED <<table, wire, nprocs>>

C7_SessionIDOrder == [][\A r \in Reqs : C7_Step(r)]_vars

\* C8: a request that missed the table leaves the table as it was on the lookup
\* step, and when its dial fails it is answered 500 by a step that leaves the
\* table as it was: no record is inserted.
C8_Step(r) ==
    /\ req[r].pc = "arrived" /\ req'[r].pc = "dial" => UNCHANGED table
    /\ req[r].pc = "dial" /\ req'[r].pc = "done"
          => req'[r].status = StatusInternalServerError /\ UNCHANGED table

C8_DialFailureNoRecord == [][\A r \in Reqs : C8_Step(r)]_vars

C8_Witness ==
    \E r \in Reqs :
        /\ req[r].pc = "done" /\ req[r].msg = "dial failed"
        /\ req[r].status = StatusInternalServerError
        /\ \A k \in SessionIDs : sessions[k] = 0

\* C9: a GET whose backend read fails hard is answered 500, and a POST on a conn
\* whose writes fail delivers nothing and is never answered 200 for a non-empty
\* body; the step that answers 500 leaves the table and every conn as they
\* were (nothing removed, nothing closed) and releases the record's mutex. A
\* key leaves the table only in the reaper's Delete, and a conn is closed only
\* in the reaper's Close.
C9_Step(r) ==
    LET c == req[r].session IN
    /\ req[r].pc = "get" /\ WriteFails(c) /\ req'[r] # req[r]
          => req'[r].pc = "done" /\ req'[r].status = StatusInternalServerError
    /\ req[r].pc = "post" /\ WriteFails(c) /\ req'[r] # req[r]
          => /\ sent' = sent /\ posted' = posted
             /\ req'[r].pc = "done"
    /\ req[r].pc \in {"post", "get"} /\ req'[r].pc = "done"
       /\ req'[r].status = StatusInternalServerError
          => /\ UNCHANGED <<sessions, closed, backend, ndialed>>
             /\ mu'[c] = 0

C9_OnlyReaperRemoves ==
    /\ (\E k \in SessionIDs : sessions[k] # 0 /\ sessions'[k] = 0)
          => reaper.pc = "delete"
    /\ closed' # closed => reaper.pc = "lock"

C9_IOFailureKeepsRecord ==
    [][(\A r \in Reqs : C9_Step(r)) /\ C9_OnlyReaperRemoves]_vars

C9_Witness ==
    \E r \in Reqs, c \in Conns :
        /\ req[r].pc = "done" /\ req[r].msg = "write failed"
        /\ req[r].status = StatusInternalServerError
        /\ backend[c] = "reset" /\ ~closed[c] /\ mu[c] = 0
        /\ sessions[dialedFor[c]] = c

\* C10: a GET read that finds nothing to read on a conn that is neither closed
\* nor reset (a timeout, or an EOF) ends the drain with 200 and the hex of the
\* bytes drained so far, an empty body when there are none, and leaves the
\* table, the conn and the backend's state as they were.
C10_Step(r) ==
    LET c == req[r].session IN
    /\ req[r].pc = "get"
    /\ ~closed[c] /\ backend[c] \in {"open", "eof"} /\ avail[c] = <<>>
    /\ req'[r] # req[r]
    => /\ req'[r].pc = "done"
       /\ req'[r].status = StatusOK
       /\ HexDecode(req'[r].respBody) = req[r].readData
       /\ req[r].readData = <<>> => req'[r].respBody = <<>>
       /\ mu'[c] = 0
       /\ UNCHANGED <<sessions, closed, backend, ndialed, avail>>

C10_TimeoutOrEOFEndsDrain == [][\A r \in Reqs : C10_Step(r)]_vars

\* C11: every response with status 200, in proxy mode and in application mode,
\* carries the fixed decoration headers.
C11_Decorated200 ==
    \A r \in Reqs :
        req[r].pc = "done" /\ req[r].status = StatusOK => req[r].decorated

\* C12: what a GET or a POST does to the backend and answers depends on the
\* conn and on the request's data only, never on the session-id or on the debug
\* flag: a read that is not a hard error either continues the drain with the
\* bytes read appended, or ends it with 200 and the hex of everything drained;
\* a POST with a non-empty body that was read, on a conn whose writes succeed,
\* writes the body and answers 200.
C12_GetOutcome(r) ==
    LET c == req[r].session
        n == IF avail[c] = <<>> THEN 0 ELSE Min(BufSize, NBytes(avail[c]))
        drained == Cat(req[r].readData, Take(avail[c], n)) IN
    /\ req[r].pc = "get" /\ ~WriteFails(c) /\ req'[r] # req[r]
    => IF n = BufSize
       THEN req'[r].pc = "get" /\ req'[r].readData = drained
       ELSE /\ req'[r].pc = "done" /\ req'[r].status = StatusOK
            /\ HexDecode(req'[r].respBody) = drained

C12_PostOutcome(r) ==
    LET c == req[r].session IN
    /\ req[r].pc = "post" /\ ~WriteFails(c) /\ req'[r] # req[r]
    /\ ndata' # ndata /\ req'[r].msg # "body read failed"
    => /\ req'[r].pc = "done" /\ req'[r].status = StatusOK
       /\ NBytes(sent'[c]) > NBytes(sent[c])

C12_OpaqueSessionID ==
    [][\A r \in Reqs : C12_GetOutcome(r) /\ C12_PostOutcome(r)]_vars

\* C13: on a conn that is neither closed nor reset, a GET read that finds at
\* least 8192 bytes ready takes exactly 8192 of them and the GET reads again;
\* a GET that has drained whole buffers and then finds nothing on an open conn
\* (the next read times out) answers 200 with exactly the bytes drained: 16384
\* ready bytes come back in one GET, and so do 8192 followed by a stall.
C13_Step(r) ==
    LET c == req[r].session IN
    /\ ( /\ req[r].pc = "get" /\ ~WriteFails(c) /\ req'[r] # req[r]
         /\ NBytes(avail[c]) >= BufSize )
       => /\ req'[r].pc = "get"
          /\ NBytes(req'[r].readData) = NBytes(req[r].readData) + BufSize
          /\ NBytes(avail'[c]) = NBytes(avail[c]) - BufSize
    /\ ( /\ req[r].pc = "get" /\ ~WriteFails(c) /\ req'[r] # req[r]
         /\ avail[c] = <<>> /\ backend[c] = "open" /\ req[r].readData # <<>> )
       => /\ req'[r].pc = "done" /\ req'[r].status = StatusOK
          /\ req'[r].respBody = HexEncode(req[r].readData)

C13_DrainsWholeBuffers == [][\A r \in Reqs : C13_Step(r)]_vars

\* C14: a handler between its Lock and its Unlock (where it reads, writes and
\* sets deadlines) holds the mutex of the record it works on, the reaper holds
\* the mutex of a record from its Close to its Delete, and every step that
\* writes to, reads from or closes a conn is taken by the holder of its mutex.
C14_HolderOnly ==
    /\ \A r \in Reqs : req[r].pc \in {"post", "get"} => mu[req[r].session] = r
    /\ reaper.pc = "delete" => mu[reaper.session] = Reaper

C14_Step ==
    \A c \in Conns :
        /\ closed'[c] # closed[c] => mu'[c] = Reaper /\ reaper.session = c
        /\ (sent'[c] # sent[c] \/ consumed'[c] # consumed[c])
              => \E r \in Reqs : mu[c] = r /\ req[r].session = c /\ req'[r] # req[r]

C14_ConnUnderMutex == [](C14_HolderOnly) /\ [][C14_Step]_vars

C14_Witness ==
    \E r1, r2 \in Reqs :
        /\ req[r1].pc \in {"post", "get"} /\ mu[req[r1].session] = r1
        /\ req[r2].pc = "lock" /\ req[r2].session = req[r1].session
        /\ reaper.pc = "lock" /\ reaper.session = req[r1].session

\* C15: in every state, no entry of the session table refers to a conn the
\* server has closed.
C15_NoClosedConnInTable ==
    \A k \in SessionIDs : sessions[k] # 0 => ~closed[sessions[k]]

\* C16: a conn is closed only by the reaper, in its step on a record whose
\* lastActive is more than five minutes before the time the reaper sampled when
\* its sweep started; a key leaves the table only in the reaper's Delete; no
\* step of a handler, whatever it answers, closes a conn or removes a key.
C16_Step ==
    /\ \A c \in Conns :
          closed'[c] # closed[c]
             => /\ reaper.pc = "lock" /\ reaper.session = c /\ reaper'.pc = "delete"
                /\ closed'[c]
                /\ lastActive[c] + IdleTimeout < reaper.now
    /\ \A k \in SessionIDs :
          sessions[k] # 0 /\ sessions'[k] = 0
             => reaper.pc = "delete" /\ reaper.key = k /\ reaper'.pc # "delete"
    /\ req' # req =>
          /\ closed' = closed
          /\ \A k \in SessionIDs : sessions[k] # 0 => sessions'[k] # 0

C16_IdleTimerOnlyCloser == [][C16_Step]_vars

C16_Witness ==
    /\ reaper.pc = "delete"
    /\ closed[reaper.session]
    /\ lastActive[reaper.session] + IdleTimeout < reaper.now
    /\ \E r \in Reqs : req[r].pc = "done" /\ req[r].status = StatusOK

\* C17: while the reaper waits for a mutex that a handler holds, no step closes
\* that record's conn, and when the reaper gets the mutex after having waited
\* for a handler it neither closes nor removes the record on that pass.
C17_Step ==
    /\ \A c \in Conns, r \in Reqs : mu[c] = r => closed'[c] = closed[c]
    /\ reaper.pc = "lock" /\ reaper.waited /\ reaper' # reaper
          => /\ reaper'.pc # "delete"
             /\ closed' = closed /\ sessions' = sessions

C17_ReaperSkipsBusyRecord == [][C17_Step]_vars

\* C18: a request that fails after taking the mutex (body read error, backend
\* write error, backend read error) leaves the record's lastActive at the value
\* it had before the request.
C18_Step(r) ==
    /\ req[r].pc \in {"post", "get"} /\ req'[r].pc = "done"
    /\ req'[r].status = StatusInternalServerError
    => lastActive'[req[r].session] = req[r].prevActive

C18_FailureKeepsLastActive == [][\A r \in Reqs : C18_Step(r)]_vars

\* C19: no step makes the lastActive of a record smaller, whichever handlers
\* interleave on it (the clock never goes back).
C19_Step == now' >= now => \A c \in Conns : lastActive'[c] >= lastActive[c]

C19_LastActiveMonotone == [][C19_Step]_vars

C19_Witness ==
    \E r1, r2 \in Reqs :
        /\ r1 # r2
        /\ req[r1].pc \in {"post", "get"}
        /\ lastActive[req[r1].session] > req[r1].prevActive
        /\ req[r1].prevActive > 0
        /\ req[r2].pc = "lock" /\ req[r2].session = req[r1].session

\* C20: every GET that has taken the session mutex eventually leaves its drain
\* loop (and with it releases the mutex), whatever the backend does.
C20_GetTerminates ==
    \A r \in Reqs : (req[r].pc = "get") ~> (req[r].pc # "get")

\* C21: when the server was started with a command, the session table is empty
\* and no conn is dialed in every state, and no request is ever past the table
\* lookup; the first step of a request either answers 500 without a subprocess
\* (no command word, or the start failed) or starts one subprocess more; the
\* requests waiting on a subprocess are never more than the subprocesses
\* started; and a request is answered 200 only by the step that follows the
\* exit of its subprocess, which answers 500 when the exit status is not zero.
C21_NoSessions ==
    appCommand # "" =>
        /\ \A k \in SessionIDs : sessions[k] = 0
        /\ ndialed = 0
        /\ \A c \in Conns : backend[c] = "none" /\ mu[c] = 0 /\ ~closed[c]
        /\ \A r \in Reqs : req[r].pc \in {"idle", "arrived", "app", "done"}
        /\ Cardinality({r \in Reqs : req[r].pc = "app"}) <= nprocs

C21_Step(r) ==
    appCommand # "" =>
        /\ req[r].pc = "arrived" /\ req'[r].pc # "arrived"
              => \/ /\ req'[r].pc = "app" /\ nprocs' = nprocs + 1
                 \/ /\ req'[r].pc = "done" /\ nprocs' = nprocs
                    /\ req'[r].status = StatusInternalServerError
        /\ req[r].pc = "app" /\ req'[r].pc # "app"
              => /\ req'[r].pc = "done" /\ nprocs' = nprocs
                 /\ req'[r].status \in {StatusOK, StatusInternalServerError}
        /\ req'[r].pc = "done" /\ req'[r].status = StatusOK /\ req[r].pc # "done"
              => req[r].pc = "app"

C21_AppModeHasNoSessions ==
    [](C21_NoSessions) /\ [][\A r \in Reqs : C21_Step(r)]_vars

C21_Witness ==
    /\ appCommand # ""
    /\ nprocs = 2
    /\ \E r1, r2 \in Reqs :
          /\ req[r1].pc = "app"
          /\ req[r2].pc = "done" /\ req[r2].msg = "exit status 1"
          /\ req[r2].status = StatusInternalServerError

\* C22: a handler in its POST or GET part, where it reads from and writes to
\* the conn of its record, never works on a record whose conn the reaper has
\* closed.
C22_NoIOOnReapedRecord ==
    \A r \in Reqs : req[r].pc \in {"post", "get"} => ~closed[req[r].session]

\* The consequence C23 draws for the whole table: in every state each conn
\* that was dialed and is not closed is the conn of a record in the table.
C23_OpenConnsInTable ==
    \A c \in Conns :
        backend[c] # "none" /\ ~closed[c] => \E k \in SessionIDs : sessions[k] = c

\* C23: the entry the reaper's Delete removes is the record whose conn the
\* reaper has just closed, never a record with an open conn that a handler has
\* stored under the same session-id in the meantime.
C23_DeleteStep ==
    reaper.pc = "delete" /\ reaper'.pc # "delete"
        => \A k \in SessionIDs :
              sessions[k] # 0 /\ sessions'[k] = 0
                 => sessions[k] = reaper.session /\ closed[sessions[k]]

C23_ReaperDeletesWhatItClosed == [][C23_DeleteStep]_vars

\* What C24 says of the mutexes in every state: a task holds at most one, a
\* handler holds one only between its Lock and its return (whatever the
\* outcome), and the reaper only between its Lock and its Unlock.
C24_OneMutexHeldWhileWorking ==
    /\ \A r \in Reqs :
          /\ Cardinality({c \in Conns : mu[c] = r}) <= 1
          /\ \A c \in Conns : mu[c] = r => Locked(r) /\ req[r].session = c
          /\ Locked(r) => mu[req[r].session] = r
    /\ Cardinality({c \in Conns : mu[c] = Reaper}) <= 1
    /\ \A c \in Conns : mu[c] = Reaper <=> reaper.pc = "delete" /\ reaper.session = c

\* C24: handlers never deadlock on a session mutex: a handler waiting in Lock
\* eventually gets past it, given that every backend Read and Write of the
\* holder returns.
C24_WaiterAcquires ==
    \A r \in Reqs : (req[r].pc = "lock") ~> (req[r].pc # "lock")
====
